---- MODULE Spec2Model ----
(***************************************************************************)
(* The AQI dashboard of aqi/views.py and aqi/models.py as a state machine. *)
(*                                                                         *)
(* Numbers.  Python floats are modelled in fixed point:                    *)
(*   - every pollutant concentration is an integer number of tenths of     *)
(*     ug/m3 (the resolution of the upstream provider);                     *)
(*   - an ozone mole fraction is an integer number of 1/3200000 ppm, so    *)
(*     that the conversion of ugm3_to_ppm_o3 at its default temperature    *)
(*     and pressure, ppm = (ug/1000) * (24.45/48), is exactly 163 units    *)
(*     per tenth of ug/m3;                                                  *)
(*   - a daily mean, rounded by the code to 2 decimals, is an integer      *)
(*     number of hundredths of ug/m3.                                       *)
(* Python's None is the empty tuple and a present value v is <<v>>, so     *)
(* that an optional value can be compared with any other.                  *)
(* An ISO timestamp "YYYY-MM-DDThh:mm" is the pair <<day, hour>>; its      *)
(* first 10 characters are the day, and lexical order is numeric order.    *)
(***************************************************************************)
EXTENDS Integers, Sequences, FiniteSets, Bags, TLC

VARIABLES
    visibility,    \* the viewer's UserVisibility row: None or <<flags>>
    locations,     \* the Location table: a set of rows
    measurements,  \* the Measurement table: a bag of rows
    frame,         \* the locals of the view that handled the last request
    context        \* the context that view rendered

vars == <<visibility, locations, measurements, frame, context>>

None == <<>>
Some(v) == <<v>>
Val(o) == o[1]

\* dict.get(k, default)
GetOr(d, k, default) == IF k \in DOMAIN d THEN d[k] ELSE default
Get(d, k) == GetOr(d, k, None)

Range(s) == {s[i] : i \in DOMAIN s}
MinOf(S) == CHOOSE x \in S : \A y \in S : x <= y
MaxOf(S) == CHOOSE x \in S : \A y \in S : y <= x

AQI_KEYS == <<"pm2_5", "pm10", "o3">>
ALL_KEYS == <<"pm2_5", "pm10", "o3", "co", "no2", "so2">>

----------------------------------------------------------------------------
(* AQI helpers *)

\* (lo, hi, Ilo, Ihi); lo and hi in tenths of ug/m3 (pm2_5, pm10) and in
\* 1/3200000 ppm (o3)
BREAKPOINTS ==
    [pm2_5 |-> << <<0, 120, 0, 50>>, <<121, 354, 51, 100>>,
                  <<355, 554, 101, 150>>, <<555, 1504, 151, 200>>,
                  <<1505, 2504, 201, 300>>, <<2505, 3504, 301, 400>>,
                  <<3505, 5004, 401, 500>> >>,
     pm10  |-> << <<0, 540, 0, 50>>, <<550, 1540, 51, 100>>,
                  <<1550, 2540, 101, 150>>, <<2550, 3540, 151, 200>>,
                  <<3550, 4240, 201, 300>>, <<4250, 5040, 301, 400>>,
                  <<5050, 6040, 401, 500>> >>,
     o3    |-> << <<0, 172800, 0, 50>>, <<176000, 224000, 51, 100>>,
                  <<227200, 272000, 101, 150>>, <<275200, 336000, 151, 200>>,
                  <<339200, 640000, 201, 300>> >>]

\* 0.200 ppm, the top of the o3 table
O3_CLAMP_HI == 640000

ugm3_to_ppm_o3(ugm3) == 163 * ugm3

\* round() of the non-negative quotient n/d: to nearest, ties to even
RoundHalfEven(n, d) ==
    LET q == n \div d
        r == n % d
    IN  IF 2 * r > d THEN q + 1
        ELSE IF 2 * r < d THEN q
        ELSE IF q % 2 = 0 THEN q ELSE q + 1

\* The one concentration of the tables' domains whose interpolation is an
\* exact tie that binary64 evaluates above the tie: 50/12 * 5.4 is
\* 22.500000000000004, which round() takes to 23.
Binary64AboveTie(p, x) == p = "pm2_5" /\ x = 54

\* A lookup whose segments do not include their upper end
subindex_exclusive(p, x) ==
    LET segs == BREAKPOINTS[p]
        hits == {i \in 1..Len(segs) : segs[i][1] <= x /\ x < segs[i][2]}
    IN  IF hits = {} THEN None
        ELSE LET s == segs[MinOf(hits)]
                 n == (s[4] - s[3]) * (x - s[1]) + s[3] * (s[2] - s[1])
             IN  Some(RoundHalfEven(n, s[2] - s[1]))

subindex(p, x) ==
    LET segs == BREAKPOINTS[p]
        hits == {i \in 1..Len(segs) : segs[i][1] <= x /\ x <= segs[i][2]}
    IN  IF hits = {} THEN None
        ELSE LET s == segs[MinOf(hits)]
                 lo == s[1]
                 hi == s[2]
                 Ilo == s[3]
                 Ihi == s[4]
                 n == (Ihi - Ilo) * (x - lo) + Ilo * (hi - lo)
             IN  IF Binary64AboveTie(p, x)
                 THEN Some((n \div (hi - lo)) + 1)
                 ELSE Some(RoundHalfEven(n, hi - lo))

NotNone(c) == c # None

\* The candidates when ozone is looked up without the clamp
candidates_of_unclamped(vals) ==
    LET pm == Get(vals, "pm2_5")
        pm10 == Get(vals, "pm10")
        o3ug == Get(vals, "o3")
        c1 == IF pm # None THEN <<subindex("pm2_5", Val(pm))>> ELSE <<>>
        c2 == IF pm10 # None THEN <<subindex("pm10", Val(pm10))>> ELSE <<>>
        c3 == IF o3ug # None
              THEN <<subindex("o3", ugm3_to_ppm_o3(Val(o3ug)))>>
              ELSE <<>>
    IN  SelectSeq(c1 \o c2 \o c3, NotNone)

\* The candidates of compute_us_aqi that are not None, in the order
\* pm2_5, pm10, o3
candidates_of(vals) ==
    LET pm == Get(vals, "pm2_5")
        pm10 == Get(vals, "pm10")
        o3ug == Get(vals, "o3")
        c1 == IF pm # None THEN <<subindex("pm2_5", Val(pm))>> ELSE <<>>
        c2 == IF pm10 # None THEN <<subindex("pm10", Val(pm10))>> ELSE <<>>
        c3 == IF o3ug # None
              THEN LET o3ppm == ugm3_to_ppm_o3(Val(o3ug))
                       low == IF o3ppm < O3_CLAMP_HI THEN o3ppm ELSE O3_CLAMP_HI
                       clamped == IF low > 0 THEN low ELSE 0
                   IN  <<subindex("o3", clamped)>>
              ELSE <<>>
    IN  SelectSeq(c1 \o c2 \o c3, NotNone)

\* An aggregate that takes the first candidate instead of the greatest
compute_us_aqi_first(vals) ==
    LET candidates == candidates_of(vals)
    IN  IF Len(candidates) > 0 THEN Val(candidates[1]) ELSE 0

compute_us_aqi(vals) ==
    LET candidates == candidates_of(vals)
    IN  IF Len(candidates) > 0
        THEN MaxOf({Val(c) : c \in Range(candidates)})
        ELSE 0

aqi_category(aqi) ==
    IF aqi <= 50 THEN <<"Good", "#009966">>
    ELSE IF aqi <= 100 THEN <<"Moderate", "#FFDE33">>
    ELSE IF aqi <= 150 THEN <<"Unhealthy for Sensitive Groups", "#FF9933">>
    ELSE IF aqi <= 200 THEN <<"Unhealthy", "#CC0033">>
    ELSE IF aqi <= 300 THEN <<"Very Unhealthy", "#660099">>
    ELSE <<"Hazardous", "#7E0023">>

\* The dict is the sequence of its items, in insertion order.
pollutant_subindices(vals) ==
    LET item(k) == IF Get(vals, k) # None
                   THEN << <<k, compute_us_aqi([x \in {k} |-> vals[k]])>> >>
                   ELSE <<>>
    IN  item("pm2_5") \o item("pm10") \o item("o3")

\* max(items, key=lambda kv: kv[1]): the first item whose value no later
\* item exceeds strictly
RECURSIVE MaxByValue(_, _, _)
MaxByValue(items, i, best) ==
    IF i > Len(items) THEN best
    ELSE MaxByValue(items, i + 1,
                    IF items[i][2] > best[2] THEN items[i] ELSE best)

\* max() that keeps the last of several greatest items
dominant_of_last(subs) ==
    IF Len(subs) > 0
    THEN LET top == MaxOf({subs[i][2] : i \in DOMAIN subs})
         IN  Some(subs[MaxOf({i \in DOMAIN subs : subs[i][2] = top})][1])
    ELSE None

dominant_of(subs) ==
    IF Len(subs) > 0 THEN Some(MaxByValue(subs, 2, subs[1])[1]) ELSE None

----------------------------------------------------------------------------
(* models.py *)

FLAGS == <<"can_pm2_5", "can_pm10", "can_o3", "can_co", "can_no2", "can_so2">>

\* UserVisibility(user=...): every flag defaults to True
DefaultVisibility ==
    [can_pm2_5 |-> TRUE, can_pm10 |-> TRUE, can_o3 |-> TRUE, can_co |-> TRUE,
     can_no2 |-> TRUE, can_so2 |-> TRUE, can_aqi |-> TRUE]

allowed_keys(vis) ==
    LET key(i) == IF vis[FLAGS[i]] THEN <<ALL_KEYS[i]>> ELSE <<>>
    IN  key(1) \o key(2) \o key(3) \o key(4) \o key(5) \o key(6)

\* A Measurement row; unique_together = (location, ts)
Measurement(loc, ts, d) ==
    [location |-> loc, ts |-> ts, aqi_us |-> d.aqi_us, pm10 |-> d.pm10,
     pm2_5 |-> d.pm2_5, o3 |-> d.o3, no2 |-> d.no2, so2 |-> d.so2,
     co |-> d.co]

\* objects.create in place of update_or_create: a row is always added
always_create(db, loc, ts, defaults) ==
    db (+) SetToBag({Measurement(loc, ts, defaults)})

\* Measurement.objects.update_or_create(location=, ts=, defaults=)
update_or_create(db, loc, ts, defaults) ==
    LET found == {m \in BagToSet(db) : m.location = loc /\ m.ts = ts}
        row == Measurement(loc, ts, defaults)
    IN  IF found = {} THEN db (+) SetToBag({row})
        ELSE (db (-) SetToBag({CHOOSE m \in found : TRUE})) (+) SetToBag({row})

\* Location.objects.get_or_create(query=, lat=, lon=, defaults={"name": })
\* gives <<the row, the table afterwards>>
get_or_create(locs, query, lat, lon, name) ==
    LET found == {l \in locs : l.query = query /\ l.lat = lat /\ l.lon = lon}
    IN  IF found # {} THEN <<CHOOSE l \in found : TRUE, locs>>
        ELSE LET row == [id |-> Cardinality(locs) + 1, query |-> query,
                         lat |-> lat, lon |-> lon, name |-> name]
             IN  <<row, locs \cup {row}>>

----------------------------------------------------------------------------
(* Visibility filtering *)

\* A gate that relabels the tile and keeps the computed value
aqi_gate_keeps_value(vis, aqi_now, aqi_cat_color) ==
    IF ~vis.can_aqi THEN <<aqi_now, <<"Hidden", "#999999">> >>
    ELSE <<aqi_now, aqi_cat_color>>

\* The AQI tile gate: <<aqi_now, aqi_cat_color>> as the viewer gets them
aqi_gate(vis, aqi_now, aqi_cat_color) ==
    IF ~vis.can_aqi THEN <<0, <<"Hidden", "#999999">> >>
    ELSE <<aqi_now, aqi_cat_color>>

\* Filter current tiles
filter_current(allowed, cur_vals) ==
    [k \in Range(ALL_KEYS) |-> IF k \in allowed THEN Get(cur_vals, k) ELSE None]

\* Filter legacy series
filter_series(allowed, series) ==
    [k \in {"time"} \cup Range(ALL_KEYS) |->
        IF k = "time" THEN GetOr(series, "time", <<>>)
        ELSE IF k \in allowed THEN GetOr(series, k, <<>>)
        ELSE <<>>]

\* A row filter that zeroes the row's aqi when it hides a pollutant the aqi
\* is computed from
filter_row_hides_aqi(row, idkey, allowed) ==
    LET keys == {idkey, "aqi"} \cup (Range(AQI_KEYS) \cap allowed)
    IN  [k \in keys |->
            IF k = idkey THEN row[idkey]
            ELSE IF k = "aqi" /\ ~(Range(AQI_KEYS) \subseteq allowed) THEN 0
            ELSE Get(row, k)]

\* A row filter that nulls a hidden pollutant instead of dropping its key
filter_row_nulls(row, idkey, allowed) ==
    [k \in {idkey, "aqi"} \cup Range(AQI_KEYS) |->
        IF k = idkey THEN row[idkey]
        ELSE IF k = "aqi" \/ k \in allowed THEN Get(row, k)
        ELSE None]

\* A row filter that copies pm2_5 from pm10 and pm10 from pm2_5
filter_row_swapped(row, idkey, allowed) ==
    LET keys == {idkey, "aqi"} \cup (Range(AQI_KEYS) \cap allowed)
    IN  [k \in keys |->
            IF k = idkey THEN row[idkey]
            ELSE IF k = "pm2_5" THEN Get(row, "pm10")
            ELSE IF k = "pm10" THEN Get(row, "pm2_5")
            ELSE Get(row, k)]

\* One filtered hourly (idkey "time") or daily (idkey "day") row
filter_row(row, idkey, allowed) ==
    LET keys == {idkey, "aqi"} \cup (Range(AQI_KEYS) \cap allowed)
    IN  [k \in keys |-> IF k = idkey THEN row[idkey] ELSE Get(row, k)]

\* _filter_by_visibility; `user` is the user's visibility row or None
filter_by_visibility(user, cur_vals, series, hourly_rows, daily_rows, aqi_now, aqi_cat_color) ==
    IF user = None
    THEN <<cur_vals, series, hourly_rows, daily_rows, aqi_now, aqi_cat_color>>
    ELSE LET vis == Val(user)
             allowed == Range(allowed_keys(vis))
             gated == aqi_gate(vis, aqi_now, aqi_cat_color)
             filtered_hourly ==
                 [i \in 1..Len(hourly_rows) |->
                     filter_row(hourly_rows[i], "time", allowed)]
             filtered_daily ==
                 [i \in 1..Len(daily_rows) |->
                     filter_row(daily_rows[i], "day", allowed)]
         IN  <<filter_current(allowed, cur_vals), filter_series(allowed, series),
               filtered_hourly, filtered_daily, gated[1], gated[2]>>

----------------------------------------------------------------------------
(* The dashboard view *)

\* The geocoding service: the places it knows, as (latitude, longitude,
\* name); any other query raises "Place not found"
geocode(q) ==
    CASE q \in {"Oslo", " Oslo "} -> Some(<<599, 107, "Oslo, NO">>)
      [] q = "Lima" -> Some(<<-120, -770, "Lima, PE">>)
      [] OTHER -> None

\* q.strip()
strip(q) == IF q = " Oslo " THEN "Oslo" ELSE q

\* timezone.make_aware(datetime.fromisoformat(t), utc), in hours
make_aware(t) == 24 * t[1] + t[2]

\* row["time"][:10]
day_of(t) == t[1]

\* a or [None]*len(times)
or_nones(a, times) == IF Len(a) > 0 THEN a ELSE [i \in 1..Len(times) |-> None]

\* a[i] if a else None; the index is in range where this is used
at_or_none(a, i) == IF Len(a) > 0 THEN a[i] ELSE None

\* a[-1] if a else None
last_or_none(a) == IF Len(a) > 0 THEN a[Len(a)] ELSE None

\* The persistence loop over zip(times, pm25 or .., ...): cols are the seven
\* zipped columns, and zip stops at the shortest
RECURSIVE persist(_, _, _, _)
persist(db, loc, cols, i) ==
    IF \E c \in 1..Len(cols) : i > Len(cols[c]) THEN db
    ELSE LET p25 == cols[2][i]
             p10v == cols[3][i]
             oz == cols[4][i]
             defaults ==
                 [pm2_5 |-> p25, pm10 |-> p10v, o3 |-> oz, co |-> cols[5][i],
                  no2 |-> cols[6][i], so2 |-> cols[7][i],
                  aqi_us |-> compute_us_aqi(
                      [pm2_5 |-> p25, pm10 |-> p10v, o3 |-> oz])]
         IN  persist(update_or_create(db, loc, make_aware(cols[1][i]), defaults),
                     loc, cols, i + 1)

RECURSIVE SumSeq(_)
SumSeq(s) == IF Len(s) = 0 THEN 0 ELSE Val(Head(s)) + SumSeq(Tail(s))

\* round(sum(lst) / len(lst), 2) over the values that are not None: tenths
\* in, hundredths out.  (A tie needs four values or more; binary64 may
\* resolve it either way, and it is resolved to even here.)
mean_safe(lst) ==
    LET l == SelectSeq(lst, NotNone)
    IN  IF Len(l) > 0 THEN Some(RoundHalfEven(10 * SumSeq(l), Len(l))) ELSE None

\* sorted(bucket.items()): the keys in ascending order
RECURSIVE sorted(_)
sorted(S) == IF S = {} THEN <<>> ELSE <<MinOf(S)>> \o sorted(S \ {MinOf(S)})

\* A daily AQI that is the rounded mean of the day's hourly values
daily_aqi_mean(lst) ==
    IF Len(lst) > 0
    THEN RoundHalfEven(SumSeq([i \in DOMAIN lst |-> Some(lst[i])]), Len(lst))
    ELSE 0

\* max(vals["aqi"]) if vals["aqi"] else 0
daily_aqi(lst) == IF Len(lst) > 0 THEN MaxOf(Range(lst)) ELSE 0

hourly_rows_of(times, pm25, pm10, o3) ==
    [i \in 1..Len(times) |->
        LET vals == [pm2_5 |-> at_or_none(pm25, i), pm10 |-> at_or_none(pm10, i),
                     o3 |-> at_or_none(o3, i)]
        IN  [time |-> times[i], pm2_5 |-> vals.pm2_5, pm10 |-> vals.pm10,
             o3 |-> vals.o3, aqi |-> compute_us_aqi(vals)]]

daily_rows_of(hourly_rows) ==
    LET days == sorted({day_of(hourly_rows[i].time) : i \in DOMAIN hourly_rows})
        OnDay(row, day) == day_of(row.time) = day
        bucket(day, k) ==
            LET rows == SelectSeq(hourly_rows, LAMBDA row : OnDay(row, day))
            IN  [i \in 1..Len(rows) |-> rows[i][k]]
    IN  [d \in 1..Len(days) |->
            [day |-> days[d],
             pm2_5 |-> mean_safe(bucket(days[d], "pm2_5")),
             pm10 |-> mean_safe(bucket(days[d], "pm10")),
             o3 |-> mean_safe(bucket(days[d], "o3")),
             aqi |-> daily_aqi(bucket(days[d], "aqi"))]]

\* The key of each pollutant's array in the provider's "hourly" object
RESPONSE_KEYS ==
    [pm2_5 |-> "pm2_5", pm10 |-> "pm10", o3 |-> "ozone",
     co |-> "carbon_monoxide", no2 |-> "nitrogen_dioxide",
     so2 |-> "sulphur_dioxide"]

\* pm25[i] raises IndexError when the array is shorter than times
index_error(times, a) == Len(a) > 0 /\ Len(a) < Len(times)

\* An empty timestamp sequence that is accepted
not_times_accepted(times) == FALSE

\* not times
not_times(times) == Len(times) = 0

NoFrame == [view |-> "none"]

ErrorFrame(user, q, fetched, msg) ==
    [view |-> "home", user |-> user, q |-> q, fetched |-> fetched,
     raised |-> Some(msg)]

\* home(request) for GET parameter q; fetched is what fetch_air_quality
\* returns for the place: None (it raises) or <<the "hourly" object>>
home(q, fetched) ==
    LET user == visibility
        place == geocode(q)
        failed(msg, locs, db) ==
            /\ context' = [result |-> None, error |-> Some(msg)]
            /\ frame' = ErrorFrame(user, q, fetched, msg)
            /\ locations' = locs
            /\ measurements' = db
            /\ UNCHANGED visibility
    IN
    IF q = ""
    THEN /\ context' = [result |-> None, error |-> None]
         /\ frame' = [view |-> "home", user |-> user, q |-> q, fetched |-> fetched,
                   raised |-> None]
         /\ UNCHANGED <<visibility, locations, measurements>>
    ELSE IF place = None
    THEN failed("Place not found. Try a different city.", locations, measurements)
    ELSE
    LET lat == Val(place)[1]
        lon == Val(place)[2]
        placename == Val(place)[3]
        created == get_or_create(locations, strip(q), lat, lon, placename)
        loc == created[1]
        locs == created[2]
    IN
    IF fetched = None
    THEN failed("HTTPError", locs, measurements)
    ELSE
    LET hourly == Val(fetched)
        times == GetOr(hourly, "time", <<>>)
        pm25 == GetOr(hourly, "pm2_5", <<>>)
        pm10 == GetOr(hourly, "pm10", <<>>)
        o3 == GetOr(hourly, "ozone", <<>>)
        co == GetOr(hourly, "carbon_monoxide", <<>>)
        no2 == GetOr(hourly, "nitrogen_dioxide", <<>>)
        so2 == GetOr(hourly, "sulphur_dioxide", <<>>)
    IN
    IF not_times(times)
    THEN failed("No air quality data available at this time.", locs, measurements)
    ELSE
    \* (each local is bound once, to its value)
    \E cur_vals \in {[pm2_5 |-> last_or_none(pm25), pm10 |-> last_or_none(pm10),
                      o3 |-> last_or_none(o3), co |-> last_or_none(co),
                      no2 |-> last_or_none(no2), so2 |-> last_or_none(so2)]} :
    \E aqi_now \in {compute_us_aqi(cur_vals)} :
    \E db \in {persist(measurements, loc.id,
                       <<times, or_nones(pm25, times), or_nones(pm10, times),
                         or_nones(o3, times), or_nones(co, times),
                         or_nones(no2, times), or_nones(so2, times)>>, 1)} :
    IF index_error(times, pm25) \/ index_error(times, pm10) \/ index_error(times, o3)
    THEN failed("list index out of range", locs, db)
    ELSE
    \E hourly_rows \in {hourly_rows_of(times, pm25, pm10, o3)} :
    \E daily_rows \in {daily_rows_of(hourly_rows)} :
    \E subs \in {pollutant_subindices(cur_vals)} :
    LET cat_color == aqi_category(aqi_now)
        dominant == dominant_of(subs)
        base_series == [time |-> times, pm2_5 |-> pm25, pm10 |-> pm10, o3 |-> o3,
                        co |-> co, no2 |-> no2, so2 |-> so2]
    IN
    \E f \in {filter_by_visibility(user, cur_vals, base_series, hourly_rows,
                                   daily_rows, aqi_now, cat_color)} :
        /\ context' =
            [result |-> Some([place |-> placename, aqi |-> f[5],
                              category |-> f[6][1], color |-> f[6][2],
                              dominant |-> dominant, subindices |-> subs,
                              current |-> f[1], series |-> f[2],
                              hourly |-> f[3], daily |-> f[4]]),
             error |-> None]
        /\ frame' = [view |-> "home", user |-> user, q |-> q,
                     fetched |-> fetched, raised |-> None,
                     loc |-> loc, times |-> times, subs |-> subs,
                     dominant |-> dominant,
                     cur_vals |-> cur_vals, aqi_now |-> aqi_now,
                     cat_color |-> cat_color, hourly_rows |-> hourly_rows,
                     daily_rows |-> daily_rows, base_series |-> base_series]
        /\ locations' = locs
        /\ measurements' = db
        /\ UNCHANGED visibility

----------------------------------------------------------------------------
(* The admin panel, for the viewer as the selected user *)

\* admin_panel(request): a GET, or a POST with the button pressed and the
\* seven checkboxes of VisibilityForm
admin_panel(method, button, form) ==
    LET selected == method = "POST"
        \* UserVisibility.objects.create(user=selected_user) when there is none
        vis == IF visibility = None THEN DefaultVisibility ELSE Val(visibility)
        saved == IF button = "save_visibility" THEN form ELSE vis
    IN  /\ visibility' = IF selected THEN Some(saved) ELSE visibility
        /\ frame' = [view |-> "admin_panel", method |-> method, button |-> button]
        /\ context' = [selected_user |-> IF selected THEN Some("viewer") ELSE None,
                       vis_form |-> IF selected THEN Some(saved) ELSE None]
        /\ UNCHANGED <<locations, measurements>>

----------------------------------------------------------------------------
(* Requests *)

\* The longest timestamp sequence and pollutant array of a response
MaxHours == 2

\* The hours the provider reports, in order: two per day
Hour(i) == <<1 + ((i - 1) \div 2), (i - 1) % 2>>


\* An "hourly" object with the given keys only
Hourly(keys, all) == [k \in keys |-> all[k]]

\* home's inputs: a query and what the provider returns for it.  Without a
\* query, or for a place the geocoder does not know, nothing is fetched.
Unfetched == {"", "Atlantis"} \X {None}

\* An array of k values whose first `holes` values are null
Array(k, holes, v) == [i \in 1..k |-> IF i <= holes THEN None ELSE Some(v)]

\* Responses whose arrays are missing, empty, shorter or longer than the
\* timestamps: the timestamps are the first n hours
Responses ==
    {None} \cup
    {Some(Hourly(keys, [time |-> [i \in 1..n |-> Hour(i)],
                        pm2_5 |-> Array(k, holes, 259),
                        carbon_monoxide |-> <<Some(3)>>])) :
        n \in 0..MaxHours, k \in 0..MaxHours, holes \in 0..1,
        keys \in {{"time", "pm2_5"}, {"time", "pm2_5", "carbon_monoxide"}}}

Requests == Unfetched \cup ({"Oslo"} \X Responses)

Hidden(keys) ==
    [f \in DOMAIN DefaultVisibility |->
        IF f \in keys THEN FALSE ELSE DefaultVisibility[f]]

Policies == {DefaultVisibility, Hidden({"can_aqi"}), Hidden({"can_aqi", "can_pm2_5"})}

Init ==
    /\ visibility \in {None, Some(DefaultVisibility)}
    /\ locations = {}
    /\ measurements = EmptyBag
    /\ frame = NoFrame
    /\ context = None

Next ==
    \/ \E req \in Requests : home(req[1], req[2])
    \/ \E form \in Policies : admin_panel("POST", "save_visibility", form)
    \/ \E method \in {"GET", "POST"} :
          admin_panel(method, "select_user", DefaultVisibility)

Spec == Init /\ [][Next]_vars

\* Queries for two places, one of them also with surrounding blanks; the
\* responses are n hours, all the first hour or the first n hours, each with
\* its own pm2_5 value and a constant pm10
Ramp(n, v) == [i \in 1..n |-> Some(v + 100 * (i - 1))]

StoreResponses ==
    {Some([time |-> [i \in 1..n |-> Hour(IF same THEN 1 ELSE i)],
           pm2_5 |-> Ramp(n, v), pm10 |-> Array(n, 0, 1135)]) :
        n \in 1..MaxHours, same \in BOOLEAN, v \in {120, 259}}

StoreRequests == {"Oslo", " Oslo ", "Lima"} \X StoreResponses

NextStore == \E req \in StoreRequests : home(req[1], req[2])

SpecStore == Init /\ [][NextStore]_vars

\* Every policy the admin form can save, for responses of MaxHours hours
\* with all six arrays, the first `holes` values of each null
AllPolicies == [DOMAIN DefaultVisibility -> BOOLEAN]

VisResponses ==
    {Some([time |-> [i \in 1..MaxHours |-> Hour(i)],
           pm2_5 |-> Array(MaxHours, holes, 259),
           pm10 |-> Array(MaxHours, holes, 540),
           ozone |-> Array(MaxHours, holes, 1080),
           carbon_monoxide |-> Array(MaxHours, holes, 3),
           nitrogen_dioxide |-> Array(MaxHours, holes, 4),
           sulphur_dioxide |-> Array(MaxHours, holes, 5)]) : holes \in 0..1}

NextVis ==
    \/ \E fetched \in VisResponses : home("Oslo", fetched)
    \/ \E form \in AllPolicies : admin_panel("POST", "save_visibility", form)

SpecVis == Init /\ [][NextVis]_vars

\* One-hour responses over concentrations at, between and beyond the
\* breakpoints (an absent value included), with and without a co array
AqiGrid ==
    [pm2_5 |-> {None, Some(0), Some(54), Some(259), Some(5005)},
     pm10 |-> {None, Some(540), Some(545), Some(1135), Some(6041)},
     o3 |-> {None, Some(1070), Some(1254), Some(3927)}]

AqiResponses ==
    {Some(Hourly(keys, [time |-> <<Hour(1)>>, pm2_5 |-> <<a>>, pm10 |-> <<b>>,
                        ozone |-> <<c>>, carbon_monoxide |-> <<Some(3)>>])) :
        a \in AqiGrid.pm2_5, b \in AqiGrid.pm10, c \in AqiGrid.o3,
        keys \in {{"time", "pm2_5", "pm10", "ozone"},
                  {"time", "pm2_5", "pm10", "ozone", "carbon_monoxide"}}}

NextAqi == \E fetched \in AqiResponses : home("Oslo", fetched)

SpecAqi == Init /\ [][NextAqi]_vars

\* Two-hour responses with one pollutant: every pair of concentrations of
\* the pollutant's grid, which lies within the range of its table
MonoGrid ==
    [pm2_5 |-> {0, 54, 120, 121, 259, 354, 355, 5004},
     pm10 |-> {0, 540, 545, 550, 1135, 1540, 1550, 6040},
     o3 |-> {0, 1060, 1070, 1080, 1254, 3926}]

MonoResponses ==
    {Some(Hourly({"time", RESPONSE_KEYS[p]},
                 [k \in {"time", "pm2_5", "pm10", "ozone"} |->
                     IF k = "time" THEN <<Hour(1), Hour(2)>> ELSE pair])) :
        p \in Range(AQI_KEYS),
        pair \in UNION {{<<Some(x), Some(y)>> : x, y \in MonoGrid[q]} :
                           q \in Range(AQI_KEYS)}}

NextMono == \E fetched \in MonoResponses : home("Oslo", fetched)

SpecMono == Init /\ [][NextMono]_vars

\* The number of hours of a response that spans days
MaxSamples == 4

\* Hours in order, three per day
DailyHour(i) == <<1 + ((i - 1) \div 3), (i - 1) % 3>>

Reverse(seq) == [i \in 1..Len(seq) |-> seq[Len(seq) + 1 - i]]

\* Responses of MaxSamples hours, in ascending or in descending order, with
\* every combination of three pm2_5 values and a pm10 array whose second
\* value is null
DailyResponses ==
    {Some([time |-> IF descending
                    THEN Reverse([i \in 1..MaxSamples |-> DailyHour(i)])
                    ELSE [i \in 1..MaxSamples |-> DailyHour(i)],
           pm2_5 |-> a,
           pm10 |-> [i \in 1..MaxSamples |-> IF i = 2 THEN None ELSE Some(540)]]) :
        a \in [1..MaxSamples -> {None, Some(100), Some(201)}],
        descending \in BOOLEAN}

NextDaily == \E fetched \in DailyResponses : home("Oslo", fetched)

SpecDaily == Init /\ [][NextDaily]_vars

\* One-hour responses whose ozone is below, at and above the concentration
\* that converts to 0.200 ppm (392.638... ug/m3), alone and beside
\* particulates
OzoneGrid == {0, 3926, 3927, 4000, 6400, 10000, 99999}

OzoneResponses ==
    {Some([time |-> <<Hour(1)>>, pm2_5 |-> <<a>>, pm10 |-> <<b>>,
           ozone |-> <<Some(c)>>]) :
        a \in {None, Some(259), Some(3000), Some(5005)},
        b \in {None, Some(1135), Some(6041)},
        c \in OzoneGrid}

NextOzone == \E fetched \in OzoneResponses : home("Oslo", fetched)

SpecOzone == Init /\ [][NextOzone]_vars

\* The ends of the segments of pollutant p's table, each with its index
SegmentEnds(p) ==
    UNION {{<<BREAKPOINTS[p][i][1], BREAKPOINTS[p][i][3]>>,
            <<BREAKPOINTS[p][i][2], BREAKPOINTS[p][i][4]>>} :
              i \in DOMAIN BREAKPOINTS[p]}

\* The concentrations a response can carry that are looked up at a segment
\* end: every end of the pm2_5 and pm10 tables; for ozone 0 and a
\* concentration that is clamped to 0.200 ppm (no other end is a whole
\* number of tenths of ug/m3)
BoundaryGrid ==
    [p \in Range(AQI_KEYS) |->
        IF p = "o3" THEN {0, 3927} ELSE {b[1] : b \in SegmentEnds(p)}]

\* Two-hour responses with one pollutant, each hour at a segment end
BoundaryResponses ==
    UNION {{Some(Hourly({"time", RESPONSE_KEYS[p]},
                        [k \in {"time", "pm2_5", "pm10", "ozone"} |->
                            IF k = "time" THEN <<Hour(1), Hour(2)>>
                            ELSE <<Some(x), Some(y)>>])) :
               x, y \in BoundaryGrid[p]} : p \in Range(AQI_KEYS)}

NextBoundary == \E fetched \in BoundaryResponses : home("Oslo", fetched)

SpecBoundary == Init /\ [][NextBoundary]_vars

----------------------------------------------------------------------------
(* Properties *)

\* The dashboard handled the last request, and it rendered a result
Rendered == frame.view = "home" /\ context.result # None
Result == Val(context.result)

\* The dashboard handled the last request and the provider answered it
\* with a non-empty timestamp sequence
Answered ==
    /\ frame.view = "home"
    /\ frame.fetched # None
    /\ Len(GetOr(Val(frame.fetched), "time", <<>>)) > 0

\* The array the provider sent for pollutant k, empty when it sent none
Sent(k) == GetOr(Val(frame.fetched), RESPONSE_KEYS[k], <<>>)
SentTimes == GetOr(Val(frame.fetched), "time", <<>>)

\* How many hours of the last response were written to the Measurement
\* table: as many as the shortest non-empty array has
Written ==
    MinOf({Len(SentTimes)} \cup
          {Len(Sent(k)) : k \in {j \in Range(ALL_KEYS) : Len(Sent(j)) > 0}})

RowsAt(loc, t) ==
    {m \in BagToSet(measurements) : m.location = loc /\ m.ts = make_aware(t)}

GateOff == Rendered /\ frame.user # None /\ ~Val(frame.user).can_aqi

\* C3: with the viewer's AQI gate off, the payload's aqi is 0 and its
\* category and color are "Hidden" and "#999999", while every hour the query
\* wrote is stored with the AQI computed for that hour.
C3_AqiTileGate ==
    GateOff =>
        /\ Result.aqi = 0
        /\ Result.category = "Hidden"
        /\ Result.color = "#999999"
        /\ \A i \in 1..Written :
               /\ RowsAt(frame.loc.id, frame.times[i]) # {}
               /\ \A m \in RowsAt(frame.loc.id, frame.times[i]) :
                      m.aqi_us = frame.hourly_rows[i].aqi

\* The gate is off for a query whose computed AQI, and the AQI stored for
\* one of its hours, is above 0.
C3_Witness ==
    /\ GateOff
    /\ frame.aqi_now > 0
    /\ \E i \in 1..Written : \E m \in RowsAt(frame.loc.id, frame.times[i]) :
           m.aqi_us > 0

\* C6: a response with n > 0 timestamps yields n hourly rows, one per
\* timestamp in order, whose pollutant value is None at every index that
\* the pollutant's array (missing, empty or shorter than n) does not cover.
C6_MismatchedLengthTolerated ==
    Answered =>
        /\ Rendered
        /\ Len(frame.hourly_rows) = Len(SentTimes)
        /\ \A i \in 1..Len(SentTimes) :
               /\ frame.hourly_rows[i].time = SentTimes[i]
               /\ \A k \in Range(AQI_KEYS) :
                      i > Len(Sent(k)) => frame.hourly_rows[i][k] = None

\* The index of the last of the written hours with the timestamp of hour i
LastWrite(i) == MaxOf({j \in 1..Written : frame.times[j] = frame.times[i]})

\* C7: the Measurement table holds at most one row per (location, ts); the
\* row of an hour a query wrote holds the values the query wrote last for
\* that timestamp; and every row's aqi_us is the AQI of that row's own
\* pm2_5, pm10 and o3.
C7_PerRowPersistence ==
    /\ \A m \in BagToSet(measurements) :
           /\ CopiesIn(m, measurements) = 1
           /\ \A m2 \in BagToSet(measurements) :
                  (m2.location = m.location /\ m2.ts = m.ts) => m2 = m
           /\ m.aqi_us = compute_us_aqi([pm2_5 |-> m.pm2_5, pm10 |-> m.pm10,
                                         o3 |-> m.o3])
    /\ (Answered /\ frame.raised = None) =>
           \A i \in 1..Written :
               \E m \in RowsAt(frame.loc.id, frame.times[i]) :
                   \A k \in Range(ALL_KEYS) :
                       m[k] = (IF Len(Sent(k)) > 0 THEN Sent(k)[LastWrite(i)]
                               ELSE None)

\* The last query wrote one timestamp twice, with different values; the
\* table holds rows of both places for one timestamp, and a row whose
\* aqi_us is not the AQI of the current snapshot.
C7_Witness ==
    /\ Rendered
    /\ \E i, j \in 1..Written :
           /\ i < j
           /\ frame.times[i] = frame.times[j]
           /\ Sent("pm2_5")[i] # Sent("pm2_5")[j]
    /\ \E m1, m2 \in BagToSet(measurements) :
           m1.ts = m2.ts /\ m1.location # m2.location
    /\ \E m \in BagToSet(measurements) :
           m.location = frame.loc.id /\ m.aqi_us # frame.aqi_now

\* The pollutant keys the policy of the last dashboard request hides
HiddenKeys ==
    IF frame.user = None THEN {}
    ELSE {ALL_KEYS[i] : i \in {j \in 1..Len(ALL_KEYS) : ~Val(frame.user)[FLAGS[j]]}}

\* C1: in a rendered result a pollutant key the policy does not permit is
\* None in the current tiles, an empty sequence in the series, and not a
\* key of any hourly or daily row.
C1_VisibilityComplete ==
    Rendered =>
        \A k \in HiddenKeys :
            /\ Result.current[k] = None
            /\ Result.series[k] = <<>>
            /\ \A i \in DOMAIN Result.hourly : k \notin DOMAIN Result.hourly[i]
            /\ \A i \in DOMAIN Result.daily : k \notin DOMAIN Result.daily[i]

\* The policy hides pm2_5 and co, and the unfiltered outputs carry values
\* for both.
C1_Witness ==
    /\ Rendered
    /\ {"pm2_5", "co"} \subseteq HiddenKeys
    /\ frame.cur_vals["pm2_5"] # None /\ frame.cur_vals["co"] # None
    /\ frame.base_series["pm2_5"] # <<>> /\ frame.base_series["co"] # <<>>
    /\ \E i \in DOMAIN frame.hourly_rows : frame.hourly_rows[i]["pm2_5"] # None
    /\ \E i \in DOMAIN frame.daily_rows : frame.daily_rows[i]["pm2_5"] # None

Unfiltered ==
    <<frame.cur_vals, frame.base_series, frame.hourly_rows, frame.daily_rows,
      frame.aqi_now, frame.cat_color>>

Filtered ==
    <<Result.current, Result.series, Result.hourly, Result.daily, Result.aqi,
      <<Result.category, Result.color>> >>

\* C2: filtering the six filtered outputs of a rendered result again, with
\* the same policy, gives the same six outputs.
C2_VisibilityIdempotent ==
    Rendered =>
        filter_by_visibility(frame.user, Result.current, Result.series,
                             Result.hourly, Result.daily, Result.aqi,
                             <<Result.category, Result.color>>) = Filtered

\* A policy with the gate off and a hidden pollutant changed each of the
\* six outputs.
C2_Witness ==
    /\ Rendered
    /\ frame.user # None
    /\ \A i \in 1..6 : Filtered[i] # Unfiltered[i]

\* The value looked up in pollutant p's table for concentration v: ozone
\* is converted to ppm and clamped to [0, 0.200]
Lookup(p, v) ==
    IF p # "o3" THEN v
    ELSE LET ppm == ugm3_to_ppm_o3(v)
         IN  IF ppm > O3_CLAMP_HI THEN O3_CLAMP_HI ELSE IF ppm < 0 THEN 0 ELSE ppm

\* Concentration v of pollutant p in the unit of p's table
ugm3_or_same(p, v) == IF p = "o3" THEN ugm3_to_ppm_o3(v) ELSE v

InSegment(p, x) ==
    \E i \in DOMAIN BREAKPOINTS[p] :
        BREAKPOINTS[p][i][1] <= x /\ x <= BREAKPOINTS[p][i][2]

\* The pollutants of a sample whose sub-index can be computed
Computable(vals) ==
    {p \in Range(AQI_KEYS) :
        vals[p] # None /\ InSegment(p, Lookup(p, Val(vals[p])))}

SubIndexOf(vals, p) == Val(subindex(p, Lookup(p, Val(vals[p]))))

\* C8: the overall AQI of the current sample is the greatest sub-index of
\* the pollutants among pm2_5, pm10, o3 whose sub-index can be computed,
\* whatever co, no2, so2 are; it is 0 when there is none, and the category
\* of 0 is ("Good", "#009966").
C8_OverallAqi ==
    Rendered =>
        LET S == {SubIndexOf(frame.cur_vals, p) : p \in Computable(frame.cur_vals)}
        IN  /\ S # {} => (frame.aqi_now \in S /\ \A x \in S : x <= frame.aqi_now)
            /\ S = {} => (frame.aqi_now = 0 /\ frame.cat_color = <<"Good", "#009966">>)
            /\ frame.cat_color = aqi_category(frame.aqi_now)

\* All three sub-indices are computed, co is present, and the overall AQI
\* is greater than the sub-index of pm2_5.
C8_Witness ==
    /\ Rendered
    /\ Computable(frame.cur_vals) = Range(AQI_KEYS)
    /\ frame.cur_vals["co"] # None
    /\ SubIndexOf(frame.cur_vals, "pm2_5") < frame.aqi_now

SubKeys == {Result.subindices[i][1] : i \in DOMAIN Result.subindices}
SubValue(k) ==
    LET i == CHOOSE j \in DOMAIN Result.subindices : Result.subindices[j][1] = k
    IN  Result.subindices[i][2]

\* C10: when the sub-index map is not empty, the dominant pollutant is the
\* first key in the order pm2_5, pm10, o3 whose sub-index is the greatest
\* of the map.
C10_DominantTieBreak ==
    (Rendered /\ SubKeys # {}) =>
        LET top == MaxOf({SubValue(k) : k \in SubKeys})
            first == MinOf({i \in DOMAIN AQI_KEYS :
                               AQI_KEYS[i] \in SubKeys /\ SubValue(AQI_KEYS[i]) = top})
        IN  /\ Result.dominant = Some(AQI_KEYS[first])
            /\ SubValue(Val(Result.dominant)) = top

\* pm2_5 and pm10 share the greatest sub-index, 80, and pm2_5 is dominant.
C10_Witness ==
    /\ Rendered
    /\ {"pm2_5", "pm10", "o3"} \subseteq SubKeys
    /\ SubValue("pm2_5") = 80 /\ SubValue("pm10") = 80 /\ SubValue("o3") < 80
    /\ Result.dominant = Some("pm2_5")

\* C5: a pollutant whose concentration is present and outside every segment
\* of its table has no entry in the sub-index map, and the dominant
\* pollutant is none when no sub-index can be computed.
C5_AbsentSubIndex ==
    Rendered =>
        /\ \A p \in Range(AQI_KEYS) :
               (frame.cur_vals[p] # None /\ p \notin Computable(frame.cur_vals))
                   => p \notin SubKeys
        /\ Computable(frame.cur_vals) = {} => Result.dominant = None

\* The table range of pollutant p
InTableRange(p, x) ==
    /\ BREAKPOINTS[p][1][1] <= x
    /\ x <= BREAKPOINTS[p][Len(BREAKPOINTS[p])][2]

\* C4: of two concentrations x <= y of one pollutant within the range of
\* its table, the sub-index obtained for x (the AQI of the hour that has
\* no other pollutant) is at most the one obtained for y.
C4_BreakpointMonotone ==
    Rendered =>
        \A p \in Range(AQI_KEYS) :
            LET a == Sent(p)
            IN  (/\ Len(SentTimes) = 2 /\ Len(a) = 2
                 /\ \A k \in Range(AQI_KEYS) \ {p} : Len(Sent(k)) = 0
                 /\ a[1] # None /\ a[2] # None
                 /\ Val(a[1]) <= Val(a[2])
                 /\ InTableRange(p, ugm3_or_same(p, Val(a[1])))
                 /\ InTableRange(p, ugm3_or_same(p, Val(a[2]))))
                => frame.hourly_rows[1].aqi <= frame.hourly_rows[2].aqi

\* The hourly rows of daily row d, and those with a value for pollutant k
HoursOf(d) ==
    {i \in DOMAIN frame.hourly_rows :
        day_of(frame.hourly_rows[i].time) = frame.daily_rows[d].day}
HoursWith(d, k) == {i \in HoursOf(d) : frame.hourly_rows[i][k] # None}

RECURSIVE SumOfHours(_, _)
SumOfHours(I, k) ==
    IF I = {} THEN 0
    ELSE LET i == CHOOSE j \in I : TRUE
         IN  Val(frame.hourly_rows[i][k]) + SumOfHours(I \ {i}, k)

\* One daily row per distinct day, in ascending order, whose aqi is the
\* greatest hourly AQI of the day
DailyDaysAndAqi ==
    /\ {frame.daily_rows[d].day : d \in DOMAIN frame.daily_rows}
           = {day_of(frame.hourly_rows[i].time) : i \in DOMAIN frame.hourly_rows}
    /\ \A d, e \in DOMAIN frame.daily_rows :
           d < e => frame.daily_rows[d].day < frame.daily_rows[e].day
    /\ \A d \in DOMAIN frame.daily_rows :
           /\ \E i \in HoursOf(d) :
                  frame.daily_rows[d].aqi = frame.hourly_rows[i].aqi
           /\ \A i \in HoursOf(d) :
                  frame.hourly_rows[i].aqi <= frame.daily_rows[d].aqi

\* The distance of a and b
Dist(a, b) == IF a >= b THEN a - b ELSE b - a

\* C9 (amended): one daily row per distinct day, in ascending day order;
\* its aqi is the greatest hourly AQI of the day, and each pollutant field
\* is None when the day has no value of that pollutant and otherwise the
\* mean of the day's values of that pollutant rounded to 2 decimals (at
\* most half a hundredth from the mean).
C9_DailyAggregation ==
    Rendered =>
        /\ DailyDaysAndAqi
        /\ \A d \in DOMAIN frame.daily_rows : \A k \in Range(AQI_KEYS) :
               LET J == HoursWith(d, k)
                   field == frame.daily_rows[d][k]
               IN  IF J = {} THEN field = None
                   ELSE /\ field # None
                        /\ 2 * Dist(Val(field) * Cardinality(J),
                                    10 * SumOfHours(J, k)) <= Cardinality(J)

\* C9 as claimed: each pollutant field is the mean of the day's values.
C9_DailyExactMean ==
    Rendered =>
        /\ DailyDaysAndAqi
        /\ \A d \in DOMAIN frame.daily_rows : \A k \in Range(AQI_KEYS) :
               LET J == HoursWith(d, k)
                   field == frame.daily_rows[d][k]
               IN  IF J = {} THEN field = None
                   ELSE /\ field # None
                        /\ Val(field) * Cardinality(J) = 10 * SumOfHours(J, k)

\* The hours came in descending order and span two days; one day has
\* different hourly AQIs, a pm2_5 mean that is not a whole number of
\* hundredths and a null pm10 value among others, and the other day has no
\* pm2_5 value.
C9_Witness ==
    /\ Rendered
    /\ Len(frame.daily_rows) = 2
    /\ day_of(frame.times[1]) > day_of(frame.times[Len(frame.times)])
    /\ \E d \in DOMAIN frame.daily_rows :
           /\ \E i, j \in HoursOf(d) :
                  frame.hourly_rows[i].aqi < frame.hourly_rows[j].aqi
           /\ (10 * SumOfHours(HoursWith(d, "pm2_5"), "pm2_5"))
                  % Cardinality(HoursOf(d)) # 0
           /\ HoursWith(d, "pm2_5") = HoursOf(d)
           /\ HoursWith(d, "pm10") \notin {{}, HoursOf(d)}
    /\ \E d \in DOMAIN frame.daily_rows : HoursWith(d, "pm2_5") = {}

\* The dashboard handled the last request for a place the geocoder knows,
\* and the provider answered it with no timestamp
EmptySeries ==
    /\ frame.view = "home"
    /\ geocode(frame.q) # None
    /\ frame.fetched # None
    /\ Len(SentTimes) = 0

\* C11: a query whose fetched timestamp sequence is empty reports the error
\* "No air quality data available at this time.", has no result and no
\* hourly or daily rows, and leaves the Measurement table as it was.
C11_EmptySeriesSignal ==
    [][EmptySeries' =>
          /\ context'.result = None
          /\ context'.error = Some("No air quality data available at this time.")
          /\ {"hourly_rows", "daily_rows"} \cap DOMAIN frame' = {}
          /\ measurements' = measurements]_vars

\* The provider answered with no timestamp (and pollutant arrays that are
\* not empty) after an earlier query wrote Measurement rows.
C11_Witness ==
    /\ EmptySeries
    /\ Len(Sent("pm2_5")) > 0
    /\ measurements # EmptyBag
    /\ context.error = Some("No air quality data available at this time.")

\* The provider answered the last request with one hour whose ozone
\* converts to more than 0.200 ppm
Saturated ==
    /\ Answered
    /\ Len(Sent("o3")) = 1
    /\ Sent("o3")[1] # None
    /\ ugm3_to_ppm_o3(Val(Sent("o3")[1])) > O3_CLAMP_HI

\* C12: an ozone concentration that converts to more than 0.200 ppm has the
\* sub-index of exactly 0.200 ppm, which is 300, the top of the o3 table:
\* the query does not fail, the sub-index map has o3 at 300, and the AQI of
\* the sample is that of the sample with ozone at 0.200 ppm, at least 300.
C12_OzoneSaturation ==
    Saturated =>
        /\ Rendered /\ context.error = None
        /\ subindex("o3", O3_CLAMP_HI) = Some(300)
        /\ "o3" \in SubKeys /\ SubValue("o3") = 300
        /\ frame.aqi_now >= 300
        /\ frame.aqi_now =
               MaxOf({300} \cup {SubIndexOf(frame.cur_vals, p) :
                                    p \in Computable(frame.cur_vals) \ {"o3"}})
        /\ frame.hourly_rows[1].aqi = frame.aqi_now

\* Ozone far above 0.200 ppm, beside a pm2_5 value of smaller sub-index,
\* decides the AQI of the sample.
C12_Witness ==
    /\ Saturated /\ Rendered
    /\ ugm3_to_ppm_o3(Val(Sent("o3")[1])) > 2 * O3_CLAMP_HI
    /\ "pm2_5" \in Computable(frame.cur_vals)
    /\ frame.aqi_now = 300
    /\ Result.dominant = Some("o3")

\* The pollutant of a response that carries one pollutant array only
Only(p) ==
    /\ Answered
    /\ Len(Sent(p)) = Len(SentTimes)
    /\ \A k \in Range(AQI_KEYS) \ {p} : Len(Sent(k)) = 0

\* C13: in every table the sub-index at a segment's lo is Ilo and at its hi
\* is Ihi, and the AQI of an hour whose only pollutant is looked up at a
\* segment end is the index of that end (pm2_5 12.0 gives 50, 12.1 gives 51).
C13_SegmentBoundaryExact ==
    /\ \A p \in Range(AQI_KEYS) : \A b \in SegmentEnds(p) :
           subindex(p, b[1]) = Some(b[2])
    /\ \A p \in Range(AQI_KEYS) : Only(p) =>
           /\ Rendered
           /\ \A i \in DOMAIN SentTimes : \A b \in SegmentEnds(p) :
                  (Sent(p)[i] # None /\ Lookup(p, Val(Sent(p)[i])) = b[1])
                      => frame.hourly_rows[i].aqi = b[2]

\* The two hours carry pm2_5 12.0 and 12.1, the hi of one segment and the lo
\* of the next, with AQI 50 and 51.
C13_Witness ==
    /\ Only("pm2_5") /\ Rendered
    /\ Sent("pm2_5") = <<Some(120), Some(121)>>
    /\ frame.hourly_rows[1].aqi = 50
    /\ frame.hourly_rows[2].aqi = 51

\* What the fetched data alone determine, whoever the viewer is: the last
\* sample, its sub-index map, and the hourly and daily rows before any
\* filter
SentCurrent == [k \in Range(AQI_KEYS) |-> last_or_none(Sent(k))]
SentSubindices == pollutant_subindices(SentCurrent)
SentHourly == hourly_rows_of(SentTimes, Sent("pm2_5"), Sent("pm10"), Sent("o3"))
SentDaily == daily_rows_of(SentHourly)

\* C14: whatever the viewer's policy, a rendered result carries the
\* dominant pollutant and the sub-index map of the fetched data's last
\* sample, and every hourly and daily row carries the AQI (and the time or
\* day) that the fetched data give it.
C14_PolicyIndependentFields ==
    Rendered =>
        /\ Result.subindices = SentSubindices
        /\ Result.dominant = dominant_of(SentSubindices)
        /\ Len(Result.hourly) = Len(SentHourly)
        /\ \A i \in DOMAIN Result.hourly :
               /\ Result.hourly[i].time = SentHourly[i].time
               /\ Result.hourly[i].aqi = SentHourly[i].aqi
        /\ Len(Result.daily) = Len(SentDaily)
        /\ \A d \in DOMAIN Result.daily :
               /\ Result.daily[d].day = SentDaily[d].day
               /\ Result.daily[d].aqi = SentDaily[d].aqi

\* The policy hides pm2_5, pm10 and o3 and has the AQI gate off, and the
\* result still names pm2_5 as dominant, with its sub-index 80 in the map
\* and as the aqi of an hourly and of a daily row, while the overall aqi
\* is 0.
C14_Witness ==
    /\ GateOff
    /\ Range(AQI_KEYS) \subseteq HiddenKeys
    /\ Result.aqi = 0
    /\ Result.dominant = Some("pm2_5")
    /\ SubValue("pm2_5") = 80
    /\ \E i \in DOMAIN Result.hourly : Result.hourly[i].aqi = 80
    /\ \E d \in DOMAIN Result.daily : Result.daily[d].aqi = 80

====
